---------------------------- MODULE Spec2Model ----------------------------
(***************************************************************************)
(* Model of the OpenAI-compatible translation proxy of src/server.py: the  *)
(* two Flask handlers embeddings() and chat_completions(), the JSON values *)
(* they inspect, the tokenizer and the downstream provider they call.      *)
(*                                                                         *)
(* A handler blocks in exactly one place, the downstream provider call, so *)
(* each handler is two actions: from the arrival of the request up to the  *)
(* provider call (or an early response), and from the provider's answer to *)
(* the response.                                                           *)
(***************************************************************************)
EXTENDS Integers, Sequences, FiniteSets, TLC

(***************************************************************************)
(* Bounds of the model.                                                    *)
(***************************************************************************)
\* longest `input` list of an /embeddings request
MaxBatch == 2
\* longest token sequence inside `input`
MaxSeqLen == 2
\* largest token id a request carries (every id 0..MaxTokenId is in the
\* tokenizer's vocabulary; the id -1 is the one that is not)
MaxTokenId == 1
\* longest list of vectors the embedding provider answers with
MaxData == 3
\* longest `messages` list of a /chat/completions request
MaxMsgs == 2

\* number of threads that serve requests at the same time
NumThreads == 2

\* the serving threads; the handlers share no state, so the properties of one
\* request are checked with one thread
Slots == {"t1"}

\* the serving threads of the concurrent server (app.run is threaded)
Threads == 1..NumThreads

(***************************************************************************)
(* JSON values as Python sees them after request.json: a tag and a payload.*)
(* A JSON object is a function from its keys to values (a Python dict).    *)
(***************************************************************************)
JNull == [t |-> "null"]
JBool(b) == [t |-> "bool", b |-> b]
JInt(n) == [t |-> "int", n |-> n]
JStr(s) == [t |-> "str", s |-> s]
JList(xs) == [t |-> "list", xs |-> xs]
JObj(f) == [t |-> "obj", f |-> f]
\* a JSON number with a fraction (a Python float), by its numeral
JFloat(x) == [t |-> "float", x |-> x]

\* a request body that request.json cannot parse
NotJson == [t |-> "notjson"]

\* the dict with no keys
EmptyDict == [key \in {} |-> JNull]

\* Python truth value of a JSON value (`if not x`)
Truthy(v) ==
  CASE v.t = "null" -> FALSE
    [] v.t = "bool" -> v.b
    [] v.t = "int"  -> v.n # 0
    [] v.t = "float" -> v.x \notin {"0.0", "-0.0"}
    [] v.t = "str"  -> v.s # ""
    [] v.t = "list" -> v.xs # <<>>
    [] v.t = "obj"  -> DOMAIN v.f # {}

\* isinstance(v, list)
isinstance_list(v) == v.t = "list"

\* isinstance(v, int): bool is a subclass of int in Python
isinstance_int(v) == v.t \in {"int", "bool"}

\* d.get(key, default) on a dict d
dict_get(d, key, default) == IF key \in DOMAIN d.f THEN d.f[key] ELSE default

\* all sequences over S of length 0..n
SeqsUpTo(S, n) == UNION {[1..k -> S] : k \in 0..n}

\* the ways an optional key can appear in a dict: absent, or with a value
Optional(key, values) == {EmptyDict} \cup {key :> v : v \in values}

(***************************************************************************)
(* What a piece of handler code ends with: a return of (body, status), a   *)
(* raised exception, or a call of the downstream provider.                 *)
(***************************************************************************)
Return(status, body) == [k |-> "return", status |-> status, body |-> body]
Raise(msg) == [k |-> "raise", msg |-> msg]
Call(fn, args) == [k |-> "call", fn |-> fn, args |-> args]

\* jsonify({"error": msg})
ErrorBody(msg) == JObj([error |-> JStr(msg)])


(***************************************************************************)
(* Process-wide configuration, set once when the module is loaded.         *)
(***************************************************************************)
\* os.environ["GEMINI_API_KEY"], copied to litellm.api_key, and LITELLM_LOG
StartupConfig == [api_key |-> "studio_key", LITELLM_LOG |-> "DEBUG"]

\* the fixed downstream model of /embeddings
EMBEDDING_MODEL == "gemini/text-embedding-004"

\* the fixed downstream model of /chat/completions
CHAT_MODEL == "gemini/gemini-2.0-flash-lite"

(***************************************************************************)
(* The reference tokenizer (tiktoken, encoding of text-embedding-ada-002). *)
(* Token id n decodes to the piece Vocab[n+1]; decode concatenates the     *)
(* pieces and raises on anything that is not a list of known token ids.    *)
(* A Python bool is an int, so True and False are the token ids 1 and 0.   *)
(***************************************************************************)
Vocab == <<"!", "\"", "#", "$", "%", "&">>

in_vocab(n) == n >= 0 /\ n < Len(Vocab)

\* the integer a Python int (or bool) stands for
token_id(x) == IF x.t = "bool" THEN (IF x.b THEN 1 ELSE 0) ELSE x.n

RECURSIVE decode_pieces(_)
decode_pieces(xs) ==
  IF xs = <<>> THEN ""
  ELSE Vocab[token_id(Head(xs)) + 1] \o decode_pieces(Tail(xs))

\* tokenizer.decode(token_list)
tokenizer_decode(token_list) ==
  IF /\ token_list.t = "list"
     /\ \A i \in 1..Len(token_list.xs) :
          /\ isinstance_int(token_list.xs[i])
          /\ in_vocab(token_id(token_list.xs[i]))
  THEN [k |-> "value", v |-> JStr(decode_pieces(token_list.xs))]
  ELSE Raise("Invalid token for decoding")

\* [tokenizer.decode(token_list) for token_list in input_data], after
\* tiktoken.encoding_for_model(...), which itself raises when the encoding
\* cannot be loaded (tokenizer_ok = FALSE)
decode_all(input_data, tokenizer_ok) ==
  IF ~tokenizer_ok THEN Raise("encoding_for_model failed")
  ELSE IF \E i \in 1..Len(input_data.xs) :
            tokenizer_decode(input_data.xs[i]).k = "raise"
  THEN Raise("Invalid token for decoding")
  ELSE [k |-> "value",
        v |-> JList([i \in 1..Len(input_data.xs) |->
                       tokenizer_decode(input_data.xs[i]).v])]

(***************************************************************************)
(* POST /embeddings                                                        *)
(***************************************************************************)
\* every element of the first list tested, not only its first one
is_token_input_all_ints(input_data) ==
  /\ isinstance_list(input_data)
  /\ Truthy(input_data)
  /\ isinstance_list(input_data.xs[1])
  /\ Truthy(input_data.xs[1])
  /\ \A n \in 1..Len(input_data.xs[1].xs) :
       isinstance_int(input_data.xs[1].xs[n])

\* lines 44-50: is the input a list of token lists?
is_token_input(input_data) ==
  /\ isinstance_list(input_data)
  /\ Truthy(input_data)
  /\ isinstance_list(input_data.xs[1])
  /\ Truthy(input_data.xs[1])
  /\ isinstance_int(input_data.xs[1].xs[1])

\* only the first token list decoded: tokenizer.decode(input_data[0])
decoded_texts_first_only(input_data, tokenizer_ok) ==
  IF is_token_input(input_data)
  THEN IF decode_all(input_data, tokenizer_ok).k = "raise"
       THEN input_data
       ELSE JList(<<decode_all(input_data, tokenizer_ok).v.xs[1]>>)
  ELSE input_data

\* each token list decoded on its own, a failing one left as it came
decoded_texts_per_item(input_data, tokenizer_ok) ==
  IF is_token_input(input_data) /\ tokenizer_ok
  THEN JList([i \in 1..Len(input_data.xs) |->
                IF tokenizer_decode(input_data.xs[i]).k = "raise"
                THEN input_data.xs[i]
                ELSE tokenizer_decode(input_data.xs[i]).v])
  ELSE input_data

\* lines 52-73: the texts sent downstream; a decode failure of any kind
\* falls back to the input as it came
decoded_texts(input_data, tokenizer_ok) ==
  IF is_token_input(input_data)
  THEN IF decode_all(input_data, tokenizer_ok).k = "raise"
       THEN input_data
       ELSE decode_all(input_data, tokenizer_ok).v
  ELSE input_data

\* the commented-out lines 35-37: the model taken from the payload
embeddings_model_from_payload(payload) ==
  dict_get(payload, "model", JStr(EMBEDDING_MODEL)).s

\* line 39: the model is fixed, whatever the payload says
embeddings_model(payload) == EMBEDDING_MODEL

\* rejects every input that is not a list as well
input_rejected_unless_list(input_data) ==
  ~Truthy(input_data) \/ ~isinstance_list(input_data)

\* `if input_data is None`: rejects a missing value only, not an empty one
input_rejected_none_only(input_data) == input_data = JNull

\* line 40: if not input_data
input_rejected(input_data) == ~Truthy(input_data)

\* the handler's try block from request.json to the litellm.embedding call
embeddings_request(raw, tokenizer_ok) ==
  IF raw = NotJson THEN Raise("400 Bad Request")
  ELSE IF raw.t # "obj" THEN Raise("object has no attribute 'get'")
  ELSE LET input_data == dict_get(raw, "input", JList(<<>>))
           model == embeddings_model(raw)
       IN IF input_rejected(input_data)
          THEN Return(400, ErrorBody("Input text is required"))
          ELSE Call("embedding",
                    [model |-> model,
                     input |-> decoded_texts(input_data, tokenizer_ok)])

\* enumerate(embeddings, 1): the index counted from 1
formatted_data_from_one(embeddings) ==
  [i \in 1..Len(embeddings) |->
     JObj([object |-> JStr("embedding"),
           embedding |-> embeddings[i],
           index |-> JInt(i)])]

\* lines 83-86: formatted_data, index i counted from 0
formatted_data(embeddings) ==
  [i \in 1..Len(embeddings) |->
     JObj([object |-> JStr("embedding"),
           embedding |-> embeddings[i],
           index |-> JInt(i - 1)])]

\* what response.usage.model_dump() gives for a usage object
UsageDump == JObj([total_tokens |-> JInt(7)])

\* the handler's try block from the provider's answer to the return; the
\* model is the one of the call (the handler's local variable)
embeddings_response(model, result) ==
  IF result.k = "raise" THEN Raise(result.msg)
  ELSE IF result.usage = "unserializable" THEN Raise("model_dump failed")
  ELSE Return(200,
         JObj([object |-> JStr("list"),
               model |-> JStr(model),
               data |-> JList(formatted_data(result.data)),
               usage |-> IF result.usage = "none"
                         THEN JObj(EmptyDict)
                         ELSE UsageDump]))

\* no except clause: the exception leaves the handler
except_nothing(outcome) == outcome

\* except Exception as e: return jsonify({"error": str(e)}), 500
except_Exception(outcome) ==
  IF outcome.k = "raise" THEN Return(500, ErrorBody(outcome.msg)) ELSE outcome


(***************************************************************************)
(* POST /chat/completions                                                  *)
(***************************************************************************)
valid_roles == {"system", "user", "assistant", "tool"}

\* `if msg.get("role")`: keeps every message that has some role
has_some_role(msg) == Truthy(dict_get(msg, "role", JNull))

\* msg.get("role") in valid_roles, for a dict msg
has_valid_role(msg) ==
  LET role == dict_get(msg, "role", JNull)
  IN role.t = "str" /\ role.s \in valid_roles

\* line 120: the model is fixed, whatever the payload says
chat_model(payload) == CHAT_MODEL

\* `if messages is None`: rejects absent messages only, not an empty list
messages_rejected_none_only(messages) == messages = JNull

\* line 122: if not messages
messages_rejected(messages) == ~Truthy(messages)

\* line 136: [msg for msg in messages if msg.get("role") in valid_roles];
\* iterating a non-list (the keys of a dict, the characters of a string, a
\* number) and calling .get on an element that is not a dict both raise
cleaned_messages(messages) ==
  IF ~isinstance_list(messages)
  THEN Raise("object has no attribute 'get'")
  ELSE IF \E i \in 1..Len(messages.xs) : messages.xs[i].t # "obj"
  THEN Raise("object has no attribute 'get'")
  ELSE [k |-> "value", v |-> SelectSeq(messages.xs, has_valid_role)]

\* `if max_tokens:` drops a max_tokens of 0 as well
with_max_tokens_if_truthy(params, max_tokens) ==
  IF Truthy(max_tokens) THEN params @@ ("max_tokens" :> max_tokens) ELSE params

\* lines 157-158: max_tokens is passed only when it is not None
with_max_tokens(params, max_tokens) ==
  IF max_tokens # JNull THEN params @@ ("max_tokens" :> max_tokens) ELSE params

\* lines 149-158: litellm_params
litellm_params(payload, cleaned) ==
  with_max_tokens(
    [model |-> chat_model(payload),
     messages |-> JList(cleaned),
     temperature |-> dict_get(payload, "temperature", JFloat("1.0")),
     top_p |-> dict_get(payload, "top_p", JFloat("1.0"))],
    dict_get(payload, "max_tokens", JNull))

\* the streaming test moved before the test of the cleaned messages
chat_after_cleaning_stream_first(payload, cleaned) ==
  IF Truthy(dict_get(payload, "stream", JBool(FALSE)))
  THEN Return(501, ErrorBody("Streaming is not yet implemented on this server"))
  ELSE IF cleaned = <<>>
  THEN Return(400, ErrorBody(
         "Valid messages with roles (system, user, assistant, tool) are required"))
  ELSE Call("completion", litellm_params(payload, cleaned))

\* the streaming test dropped: the provider is called whatever `stream` is
chat_after_cleaning_no_stream_test(payload, cleaned) ==
  IF cleaned = <<>>
  THEN Return(400, ErrorBody(
         "Valid messages with roles (system, user, assistant, tool) are required"))
  ELSE Call("completion", litellm_params(payload, cleaned))

\* lines 138-175, once cleaned_messages is computed
chat_after_cleaning(payload, cleaned) ==
  IF cleaned = <<>>
  THEN Return(400, ErrorBody(
         "Valid messages with roles (system, user, assistant, tool) are required"))
  ELSE IF Truthy(dict_get(payload, "stream", JBool(FALSE)))
  THEN Return(501, ErrorBody("Streaming is not yet implemented on this server"))
  ELSE Call("completion", litellm_params(payload, cleaned))

\* the handler's try block from request.json to the litellm.completion call
chat_request(raw) ==
  IF raw = NotJson THEN Raise("400 Bad Request")
  ELSE IF raw.t # "obj" THEN Raise("object has no attribute 'get'")
  ELSE LET messages == dict_get(raw, "messages", JNull)
       IN IF messages_rejected(messages)
          THEN Return(400, ErrorBody("Messages are required"))
          ELSE IF cleaned_messages(messages).k = "raise"
          THEN Raise(cleaned_messages(messages).msg)
          ELSE chat_after_cleaning(raw, cleaned_messages(messages).v)

\* the handler's try block from the provider's answer to the return:
\* jsonify(response.model_dump())
chat_response(result) ==
  IF result.k = "raise" THEN Raise(result.msg)
  ELSE IF ~result.dumpable THEN Raise("model_dump failed")
  ELSE Return(200, result.completion)


(***************************************************************************)
(* The requests a client can send.                                         *)
(***************************************************************************)
\* token ids: those of the vocabulary and -1, which decode rejects
TokenIds == -1..MaxTokenId

TokenSeqs == {JList(ts) : ts \in SeqsUpTo({JInt(n) : n \in TokenIds}, MaxSeqLen)}

Texts == {"", "!", "hi"}

\* the elements of an `input` list: token lists, strings, a list that holds
\* a string, a list that holds an integer and then a string, and a list
\* that holds a boolean
EmbItems ==
  TokenSeqs \cup {JStr(s) : s \in Texts}
    \cup {JList(<<JStr("hi")>>), JList(<<JInt(0), JStr("hi")>>),
          JList(<<JBool(TRUE)>>)}

EmbInputs ==
  {JList(xs) : xs \in SeqsUpTo(EmbItems, MaxBatch)}
    \cup {JNull, JStr(""), JStr("hi"), JInt(0), JInt(5)}

\* values of the `model` key of a request
RequestModels == {JStr("gpt-4"), JStr("text-embedding-ada-002")}

\* bodies that are not a JSON object
NonObjectBodies == {NotJson, JNull, JList(<<>>), JStr("hi")}

EmbBodies ==
  NonObjectBodies \cup
    {JObj(a @@ b) : a \in Optional("input", EmbInputs),
                    b \in Optional("model", RequestModels)}

\* the elements of a `messages` list: messages with a valid role, with
\* another role, with a role that is not a string, without role, and an
\* element that is not an object
ChatItems ==
  {JObj([role |-> JStr(r), content |-> JStr("x")]) :
      r \in valid_roles \cup {"bogus"}}
    \cup {JObj([role |-> JInt(1), content |-> JStr("x")]),
          JObj([content |-> JStr("x")]),
          JStr("junk")}

ChatMessages ==
  {JList(xs) : xs \in SeqsUpTo(ChatItems, MaxMsgs)}
    \cup {JNull, JStr("hi"), JObj([role |-> JStr("user")])}

ChatBodies ==
  NonObjectBodies \cup
    {JObj(a @@ b @@ c @@ d @@ e @@ f) :
        a \in Optional("messages", ChatMessages),
        b \in Optional("model", RequestModels),
        c \in Optional("stream", {JBool(TRUE), JBool(FALSE)}),
        d \in Optional("max_tokens", {JNull, JInt(0), JInt(16)}),
        e \in Optional("temperature", {JFloat("0.2")}),
        f \in Optional("top_p", {JFloat("0.9")})}

(***************************************************************************)
(* What the downstream provider can answer.                                *)
(***************************************************************************)
Vectors == {JList(<<JFloat("0.1")>>), JList(<<JFloat("0.2")>>)}

\* litellm.embedding: raises, or returns a list of items with an embedding
\* each (of any length) and a usage that is None, dumps, or fails to dump
EmbResults ==
  {Raise("provider error")} \cup
    {[k |-> "value", data |-> d, usage |-> u] :
        d \in SeqsUpTo(Vectors, MaxData),
        u \in {"none", "dump", "unserializable"}}

Completions ==
  {JObj([id |-> JStr("chatcmpl-1"), object |-> JStr("chat.completion")]),
   JObj([id |-> JStr("chatcmpl-2"), object |-> JStr("chat.completion")])}

\* litellm.completion: raises, or returns an object that model_dump()
\* serializes or fails to serialize
ChatResults ==
  {Raise("provider error")} \cup
    {[k |-> "value", completion |-> c, dumpable |-> b] :
        c \in Completions, b \in BOOLEAN}

(***************************************************************************)
(* State.  Every slot is one request being handled by one server thread.   *)
(***************************************************************************)
VARIABLES
  config,     \* process-wide configuration (litellm.api_key, LITELLM_LOG)
  pc,         \* per slot: "idle", "calling" (blocked in the provider), "done"
  endpoint,   \* per slot: "none", "embeddings" or "chat"
  request,    \* per slot: the body of the request
  decoding,   \* per slot: "none", "ok" or "failed" (the tokenizer's outcome)
  call,       \* per slot: the provider call made for the request, or NoCall
  ncalls,     \* per slot: number of provider calls made for the request
  result,     \* per slot: what the provider answered, or NoResult
  response,   \* per slot: how the handler ended, or NoResponse
  nresponses  \* per slot: number of responses produced for the request

vars == <<config, pc, endpoint, request, decoding, call, ncalls, result,
          response, nresponses>>

NoCall == [k |-> "none"]
NoResult == [k |-> "none"]
NoResponse == [k |-> "none"]
NoRequest == [t |-> "none"]

\* the server after start-up, with the serving threads S all free
InitOn(S) ==
  /\ config = StartupConfig
  /\ pc = [i \in S |-> "idle"]
  /\ endpoint = [i \in S |-> "none"]
  /\ request = [i \in S |-> NoRequest]
  /\ decoding = [i \in S |-> "none"]
  /\ call = [i \in S |-> NoCall]
  /\ ncalls = [i \in S |-> 0]
  /\ result = [i \in S |-> NoResult]
  /\ response = [i \in S |-> NoResponse]
  /\ nresponses = [i \in S |-> 0]

Init == InitOn(Slots)

\* the tokenizer's outcome for an input, as the handler meets it
decoding_of(raw, tokenizer_ok) ==
  IF raw.t = "obj" /\ is_token_input(dict_get(raw, "input", JList(<<>>)))
       /\ ~input_rejected(dict_get(raw, "input", JList(<<>>)))
  THEN IF decode_all(dict_get(raw, "input", JList(<<>>)), tokenizer_ok).k = "raise"
       THEN "failed" ELSE "ok"
  ELSE "none"

\* a slot takes a request and runs handler code up to its first outcome:
\* a provider call blocks the slot, anything else ends the request
Begin(i, ep, raw, dec, outcome) ==
  /\ endpoint' = [endpoint EXCEPT ![i] = ep]
  /\ request' = [request EXCEPT ![i] = raw]
  /\ decoding' = [decoding EXCEPT ![i] = dec]
  /\ result' = [result EXCEPT ![i] = NoResult]
  /\ IF outcome.k = "call"
     THEN /\ pc' = [pc EXCEPT ![i] = "calling"]
          /\ call' = [call EXCEPT ![i] = outcome]
          /\ ncalls' = [ncalls EXCEPT ![i] = 1]
          /\ response' = [response EXCEPT ![i] = NoResponse]
          /\ nresponses' = [nresponses EXCEPT ![i] = 0]
     ELSE /\ pc' = [pc EXCEPT ![i] = "done"]
          /\ call' = [call EXCEPT ![i] = NoCall]
          /\ ncalls' = [ncalls EXCEPT ![i] = 0]
          /\ response' = [response EXCEPT ![i] = outcome]
          /\ nresponses' = [nresponses EXCEPT ![i] = 1]
  /\ UNCHANGED config

\* the response kept in a module-level variable: a thread that finishes
\* while another finished request of the same endpoint is still there
\* answers with that request's response
Finish_cached(i, res, outcome) ==
  /\ pc' = [pc EXCEPT ![i] = "done"]
  /\ result' = [result EXCEPT ![i] = res]
  /\ response' =
       [response EXCEPT ![i] =
          IF \E j \in DOMAIN pc :
               j # i /\ pc[j] = "done" /\ endpoint[j] = endpoint[i]
          THEN response[CHOOSE j \in DOMAIN pc :
                          j # i /\ pc[j] = "done" /\ endpoint[j] = endpoint[i]]
          ELSE outcome]
  /\ nresponses' = [nresponses EXCEPT ![i] = nresponses[i] + 1]
  /\ UNCHANGED <<config, endpoint, request, decoding, call, ncalls>>

\* the provider answers and the handler runs to its end
Finish(i, res, outcome) ==
  /\ pc' = [pc EXCEPT ![i] = "done"]
  /\ result' = [result EXCEPT ![i] = res]
  /\ response' = [response EXCEPT ![i] = outcome]
  /\ nresponses' = [nresponses EXCEPT ![i] = nresponses[i] + 1]
  /\ UNCHANGED <<config, endpoint, request, decoding, call, ncalls>>

\* embeddings(), lines 28-79: up to the litellm.embedding call
embeddings(i) ==
  /\ pc[i] = "idle"
  /\ \E raw \in EmbBodies, tokenizer_ok \in BOOLEAN :
       Begin(i, "embeddings", raw, decoding_of(raw, tokenizer_ok),
             except_Exception(embeddings_request(raw, tokenizer_ok)))

\* embeddings(), lines 76-102: from the provider's answer to the response
embeddings_return(i) ==
  /\ pc[i] = "calling"
  /\ endpoint[i] = "embeddings"
  /\ \E res \in EmbResults :
       Finish(i, res,
              except_Exception(embeddings_response(call[i].args.model, res)))

\* chat_completions(), lines 107-175: up to the litellm.completion call
chat_completions(i) ==
  /\ pc[i] = "idle"
  /\ \E raw \in ChatBodies :
       Begin(i, "chat", raw, "none", except_Exception(chat_request(raw)))

\* chat_completions(), lines 173-189: from the provider's answer on
chat_completions_return(i) ==
  /\ pc[i] = "calling"
  /\ endpoint[i] = "chat"
  /\ \E res \in ChatResults :
       Finish(i, res, except_Exception(chat_response(res)))

\* the response is sent and the serving thread is free for the next request;
\* nothing of the request is kept
release(i) ==
  /\ pc[i] = "done"
  /\ pc' = [pc EXCEPT ![i] = "idle"]
  /\ endpoint' = [endpoint EXCEPT ![i] = "none"]
  /\ request' = [request EXCEPT ![i] = NoRequest]
  /\ decoding' = [decoding EXCEPT ![i] = "none"]
  /\ call' = [call EXCEPT ![i] = NoCall]
  /\ ncalls' = [ncalls EXCEPT ![i] = 0]
  /\ result' = [result EXCEPT ![i] = NoResult]
  /\ response' = [response EXCEPT ![i] = NoResponse]
  /\ nresponses' = [nresponses EXCEPT ![i] = 0]
  /\ UNCHANGED config

Next ==
  \E i \in DOMAIN pc :
    \/ embeddings(i)
    \/ embeddings_return(i)
    \/ chat_completions(i)
    \/ chat_completions_return(i)
    \/ release(i)

Spec == Init /\ [][Next]_vars

(***************************************************************************)
(* The concurrent server: several threads handle requests at the same      *)
(* time, any interleaving of their steps.  The handlers are the same; the  *)
(* requests and the provider's answers are a few of each kind.             *)
(***************************************************************************)
UserMessage == JObj([role |-> JStr("user"), content |-> JStr("x")])

ConcEmbBodies ==
  {NotJson,
   JObj([input |-> JList(<<>>)]),
   JObj([input |-> JList(<<JStr("hi")>>)]),
   JObj([input |-> JList(<<JList(<<JInt(0)>>)>>), model |-> JStr("gpt-4")])}

ConcChatBodies ==
  {JObj([messages |-> JList(<<UserMessage>>)]),
   JObj([messages |-> JList(<<UserMessage>>), stream |-> JBool(TRUE)]),
   JObj([messages |->
           JList(<<JObj([role |-> JStr("bogus"), content |-> JStr("x")])>>)])}

ConcEmbResults ==
  {Raise("provider error"),
   [k |-> "value", data |-> <<JList(<<JFloat("0.1")>>)>>, usage |-> "dump"],
   [k |-> "value", data |-> <<JList(<<JFloat("0.2")>>)>>, usage |-> "none"]}

ConcChatResults ==
  {Raise("provider error")} \cup
    {[k |-> "value", completion |-> c, dumpable |-> TRUE] : c \in Completions}

InitConc == InitOn(Threads)

embeddings_conc(i) ==
  /\ pc[i] = "idle"
  /\ \E raw \in ConcEmbBodies, tokenizer_ok \in BOOLEAN :
       Begin(i, "embeddings", raw, decoding_of(raw, tokenizer_ok),
             except_Exception(embeddings_request(raw, tokenizer_ok)))

embeddings_return_conc(i) ==
  /\ pc[i] = "calling"
  /\ endpoint[i] = "embeddings"
  /\ \E res \in ConcEmbResults :
       Finish(i, res,
              except_Exception(embeddings_response(call[i].args.model, res)))

chat_completions_conc(i) ==
  /\ pc[i] = "idle"
  /\ \E raw \in ConcChatBodies :
       Begin(i, "chat", raw, "none", except_Exception(chat_request(raw)))

chat_completions_return_conc(i) ==
  /\ pc[i] = "calling"
  /\ endpoint[i] = "chat"
  /\ \E res \in ConcChatResults :
       Finish(i, res, except_Exception(chat_response(res)))

NextConc ==
  \E i \in DOMAIN pc :
    \/ embeddings_conc(i)
    \/ embeddings_return_conc(i)
    \/ chat_completions_conc(i)
    \/ chat_completions_return_conc(i)
    \/ release(i)

SpecConc == InitConc /\ [][NextConc]_vars


(***************************************************************************)
(* Vocabulary of the properties: what a request is, read off its body      *)
(* without running the handler.                                            *)
(***************************************************************************)
\* the slots that hold a request
Active == {i \in DOMAIN pc : pc[i] # "idle"}
Done == {i \in DOMAIN pc : pc[i] = "done"}

\* the empty values of JSON
EmptyValues == {JNull, JStr(""), JList(<<>>), JObj(EmptyDict), JInt(0), JBool(FALSE)}

HasKey(body, key) == body.t = "obj" /\ key \in DOMAIN body.f

\* `input` is missing or empty
InputMissingOrEmpty(body) ==
  body.t = "obj" /\ (~HasKey(body, "input") \/ body.f["input"] \in EmptyValues)

\* `messages` is a list of JSON objects
WellFormedMessages(body) ==
  /\ HasKey(body, "messages")
  /\ body.f["messages"].t = "list"
  /\ \A n \in 1..Len(body.f["messages"].xs) : body.f["messages"].xs[n].t = "obj"

\* the element is a message whose role is one of the four valid roles
ValidRoleElement(e) ==
  /\ e.t = "obj"
  /\ "role" \in DOMAIN e.f
  /\ e.f["role"] \in {JStr("system"), JStr("user"), JStr("assistant"), JStr("tool")}

\* some element of `messages` has a valid role
SomeValidRole(body) ==
  /\ HasKey(body, "messages")
  /\ body.f["messages"].t = "list"
  /\ \E n \in 1..Len(body.f["messages"].xs) : ValidRoleElement(body.f["messages"].xs[n])

StreamRequested(body) == HasKey(body, "stream") /\ body.f["stream"] = JBool(TRUE)

MessagesRequired == Return(400, ErrorBody("Messages are required"))
ValidMessagesRequired ==
  Return(400, ErrorBody(
    "Valid messages with roles (system, user, assistant, tool) are required"))
InputRequired == Return(400, ErrorBody("Input text is required"))
NotImplemented ==
  Return(501, ErrorBody("Streaming is not yet implemented on this server"))

\* the response is a 500 whose body is {"error": <a message>}
IsError500(r) ==
  /\ r.k = "return" /\ r.status = 500
  /\ r.body.t = "obj" /\ DOMAIN r.body.f = {"error"}
  /\ r.body.f["error"].t = "str"


(***************************************************************************)
(* C1.  POST /embeddings with `input` missing or empty is answered with    *)
(* 400 {"error": "Input text is required"} and the embedding provider is   *)
(* not called for that request.                                            *)
(***************************************************************************)
C1_EmptyInputIs400 ==
  \A i \in Active :
    (endpoint[i] = "embeddings" /\ InputMissingOrEmpty(request[i]))
      => /\ pc[i] = "done"
         /\ response[i] = InputRequired
         /\ ncalls[i] = 0
         /\ call[i] = NoCall

\* an /embeddings request with "input": [] has been answered
C1_Witness ==
  \E i \in Done :
    /\ endpoint[i] = "embeddings"
    /\ HasKey(request[i], "input")
    /\ request[i].f["input"] = JList(<<>>)
    /\ response[i].status = 400

(***************************************************************************)
(* C2 as stated.  POST /chat/completions: absent `messages` gives 400      *)
(* "Messages are required"; `messages` present with no element of a valid  *)
(* role gives 400 "Valid messages with roles ... are required"; in both    *)
(* cases the provider is never called.  (Read in the claim's favour: null  *)
(* counts as absent, and only a list counts as present.)                   *)
(***************************************************************************)
C2_AsStated ==
  \A i \in Active :
    (endpoint[i] = "chat" /\ request[i].t = "obj") =>
      /\ (~HasKey(request[i], "messages") \/ request[i].f["messages"] = JNull)
           => (pc[i] = "done" /\ response[i] = MessagesRequired /\ ncalls[i] = 0)
      /\ (HasKey(request[i], "messages") /\ request[i].f["messages"].t = "list"
            /\ ~SomeValidRole(request[i]))
           => (pc[i] = "done" /\ response[i] = ValidMessagesRequired
                 /\ ncalls[i] = 0)

(***************************************************************************)
(* C2 amended.  Absent, null or empty-list `messages` gives 400 "Messages  *)
(* are required"; a non-empty list of JSON objects none of which has a     *)
(* valid role gives 400 "Valid messages with roles ... are required"; in   *)
(* both cases the provider is never called.                                *)
(***************************************************************************)
C2_MessagesValidation ==
  \A i \in Active :
    (endpoint[i] = "chat" /\ request[i].t = "obj") =>
      /\ (~HasKey(request[i], "messages")
            \/ request[i].f["messages"] \in {JNull, JList(<<>>)})
           => (pc[i] = "done" /\ response[i] = MessagesRequired
                 /\ ncalls[i] = 0 /\ call[i] = NoCall)
      /\ (WellFormedMessages(request[i])
            /\ request[i].f["messages"] # JList(<<>>)
            /\ ~SomeValidRole(request[i]))
           => (pc[i] = "done" /\ response[i] = ValidMessagesRequired
                 /\ ncalls[i] = 0 /\ call[i] = NoCall)

\* a request whose only message has the role "bogus" has been answered
C2_Witness ==
  \E i \in Done :
    /\ endpoint[i] = "chat"
    /\ HasKey(request[i], "messages")
    /\ request[i].f["messages"] =
         JList(<<JObj([role |-> JStr("bogus"), content |-> JStr("x")])>>)
    /\ response[i] = ValidMessagesRequired

(***************************************************************************)
(* C3 as stated.  POST /chat/completions with stream = true and at least   *)
(* one message of a valid role is answered with 501 "Streaming is not yet  *)
(* implemented on this server" and no provider call is made at any point.  *)
(***************************************************************************)
C3_AsStated ==
  \A i \in Active :
    (endpoint[i] = "chat" /\ StreamRequested(request[i])
       /\ SomeValidRole(request[i]))
      => (pc[i] = "done" /\ response[i] = NotImplemented /\ ncalls[i] = 0)

(***************************************************************************)
(* C3 amended.  With stream = true and `messages` a list of JSON objects   *)
(* at least one of which has a valid role, the answer is 501 "Streaming is *)
(* not yet implemented on this server" and no provider call is made at any *)
(* point of the handling.                                                  *)
(***************************************************************************)
C3_StreamIs501 ==
  \A i \in Active :
    (endpoint[i] = "chat" /\ StreamRequested(request[i])
       /\ WellFormedMessages(request[i]) /\ SomeValidRole(request[i]))
      => (pc[i] = "done" /\ response[i] = NotImplemented
            /\ ncalls[i] = 0 /\ call[i] = NoCall)

\* a streaming request with a valid user message has been answered
C3_Witness ==
  \E i \in Done :
    /\ endpoint[i] = "chat"
    /\ StreamRequested(request[i])
    /\ WellFormedMessages(request[i]) /\ SomeValidRole(request[i])
    /\ response[i].status = 501


\* `input` is a non-empty list of strings
StringArrayInput(body) ==
  /\ HasKey(body, "input")
  /\ body.f["input"].t = "list"
  /\ body.f["input"].xs # <<>>
  /\ \A n \in 1..Len(body.f["input"].xs) : body.f["input"].xs[n].t = "str"

\* the `data` list of a 200 response of /embeddings
DataOf(r) == r.body.f["data"].xs

\* every entry's index is its 0-based position
IndexIsPosition(data) ==
  \A n \in 1..Len(data) : data[n].f["index"] = JInt(n - 1)

(***************************************************************************)
(* C4 as stated.  For a non-empty string-array input answered with 200,    *)
(* `data` is as long as `input` and every entry's index is its 0-based     *)
(* position, whatever list of vectors the provider returned.               *)
(***************************************************************************)
C4_AsStated ==
  \A i \in Done :
    (endpoint[i] = "embeddings" /\ StringArrayInput(request[i])
       /\ response[i].status = 200)
      => /\ Len(DataOf(response[i])) = Len(request[i].f["input"].xs)
         /\ IndexIsPosition(DataOf(response[i]))

(***************************************************************************)
(* C4 amended.  For a non-empty string-array input answered with 200,      *)
(* `data` has the length and the order of the list of vectors the provider *)
(* returned and every entry's index is its 0-based position; `data` is as  *)
(* long as `input` exactly when the provider returned one vector per       *)
(* input string.                                                           *)
(***************************************************************************)
C4_DataFollowsProvider ==
  \A i \in Done :
    (endpoint[i] = "embeddings" /\ StringArrayInput(request[i])
       /\ response[i].status = 200)
      => /\ Len(DataOf(response[i])) = Len(result[i].data)
         /\ \A n \in 1..Len(result[i].data) :
              DataOf(response[i])[n].f["embedding"] = result[i].data[n]
         /\ IndexIsPosition(DataOf(response[i]))
         /\ (Len(DataOf(response[i])) = Len(request[i].f["input"].xs))
              <=> (Len(result[i].data) = Len(request[i].f["input"].xs))

\* two strings were sent and the provider's two different vectors came back
C4_Witness ==
  \E i \in Done :
    /\ endpoint[i] = "embeddings" /\ StringArrayInput(request[i])
    /\ Len(request[i].f["input"].xs) = 2
    /\ response[i].status = 200
    /\ Len(DataOf(response[i])) = 2
    /\ DataOf(response[i])[1].f["embedding"] # DataOf(response[i])[2].f["embedding"]

(***************************************************************************)
(* The exceptions a request meets, read off the request and the provider's *)
(* answer.                                                                 *)
(***************************************************************************)
\* request.json raises, or the body is not an object and .get raises
BadBody(i) == request[i] = NotJson \/ request[i].t # "obj"

\* `messages` passes the emptiness test and is not a list of objects
MalformedMessages(i) ==
  /\ endpoint[i] = "chat"
  /\ HasKey(request[i], "messages")
  /\ request[i].f["messages"] \notin EmptyValues
  /\ ~WellFormedMessages(request[i])

ProviderRaised(i) == result[i].k = "raise"

\* the provider's answer cannot be serialized
SerializationFailed(i) ==
  /\ result[i].k = "value"
  /\ \/ endpoint[i] = "embeddings" /\ result[i].usage = "unserializable"
     \/ endpoint[i] = "chat" /\ ~result[i].dumpable

TokenizerRaised(i) == decoding[i] = "failed"

ExceptionOutsideTokenizer(i) ==
  BadBody(i) \/ MalformedMessages(i) \/ ProviderRaised(i) \/ SerializationFailed(i)

(***************************************************************************)
(* C5 as stated.  Every exception raised while handling a request (body    *)
(* parsing, non-object body, malformed message element, tokenizer,         *)
(* provider call, serialization) becomes exactly one 500 response with     *)
(* body {"error": <message>}; none leaves the handler, no call is retried. *)
(***************************************************************************)
C5_AsStated ==
  \A i \in Done :
    /\ response[i].k = "return" /\ nresponses[i] = 1 /\ ncalls[i] <= 1
    /\ (ExceptionOutsideTokenizer(i) \/ TokenizerRaised(i))
         => IsError500(response[i])

(***************************************************************************)
(* C5 amended.  Every exception raised while handling a request, other     *)
(* than one raised by the tokenizer on /embeddings (which the handler      *)
(* recovers from by forwarding the input as it came), becomes exactly one  *)
(* 500 response with body {"error": <message>}, the provider's message     *)
(* when the provider raised; none leaves the handler and the provider call *)
(* is not retried.                                                         *)
(***************************************************************************)
C5_ExceptionsBecome500 ==
  \A i \in Done :
    /\ response[i].k = "return" /\ nresponses[i] = 1 /\ ncalls[i] <= 1
    /\ ExceptionOutsideTokenizer(i) => IsError500(response[i])
    /\ ProviderRaised(i) => response[i].body.f["error"] = JStr(result[i].msg)

\* the provider raised and the request was answered with 500
C5_Witness ==
  \E i \in Done :
    ProviderRaised(i) /\ ncalls[i] = 1 /\ response[i].status = 500

(***************************************************************************)
(* C6.  When decoding raises for a batch classified as token input, no     *)
(* partly decoded result is used: the whole original `input` is forwarded  *)
(* unchanged to the provider, and the decode failure alone does not make   *)
(* the answer an error (the outcome follows the provider call only).       *)
(***************************************************************************)
C6_DecodeFailureFallsBack ==
  \A i \in Active :
    TokenizerRaised(i)
      => /\ ncalls[i] = 1
         /\ call[i].k = "call" /\ call[i].fn = "embedding"
         /\ call[i].args.input = request[i].f["input"]
         /\ pc[i] = "done"
              => /\ response[i].k = "return"
                 /\ (response[i].status = 200)
                      <=> ~(ProviderRaised(i) \/ SerializationFailed(i))
                 /\ response[i].status \in {200, 500}

\* a batch of two token lists, the second one undecodable while the
\* tokenizer itself loads, was forwarded and answered with 200
C6_Witness ==
  \E i \in Done :
    /\ TokenizerRaised(i)
    /\ Len(request[i].f["input"].xs) = 2
    /\ tokenizer_decode(request[i].f["input"].xs[1]).k = "value"
    /\ tokenizer_decode(request[i].f["input"].xs[2]).k = "raise"
    /\ response[i].status = 200

\* the request that submits the decoded strings of a token request directly
DecodedTwin(body) ==
  JObj([key \in DOMAIN body.f |->
          IF key = "input" THEN decode_all(body.f["input"], TRUE).v
          ELSE body.f[key]])

(***************************************************************************)
(* C7.  For a token-array input whose decoding succeeds, the provider call *)
(* and the response are those of the request that submits the decoded      *)
(* strings directly as a string array: same strings in the same order,     *)
(* same fixed model, same reshaping of the provider's answer.              *)
(***************************************************************************)
C7_TokensAsDecodedStrings ==
  \A i \in Active :
    decoding[i] = "ok"
      => /\ StringArrayInput(DecodedTwin(request[i]))
         /\ Len(DecodedTwin(request[i]).f["input"].xs)
              = Len(request[i].f["input"].xs)
         /\ \A tok \in BOOLEAN :
              call[i] = except_Exception(
                          embeddings_request(DecodedTwin(request[i]), tok))
         /\ pc[i] = "done"
              => response[i] =
                   except_Exception(embeddings_response(
                     embeddings_request(DecodedTwin(request[i]), TRUE).args.model,
                     result[i]))

\* the token lists [0, 1] and [1] were sent downstream as "!\"" and "\""
C7_Witness ==
  \E i \in Done :
    /\ decoding[i] = "ok"
    /\ request[i].f["input"] =
         JList(<<JList(<<JInt(0), JInt(1)>>), JList(<<JInt(1)>>)>>)
    /\ call[i].args.input = JList(<<JStr("!\""), JStr("\"")>>)
    /\ response[i].status = 200

(***************************************************************************)
(* C8.  The parameters passed to the completion call contain no max_tokens *)
(* key at all when the request has no max_tokens (it is not sent as null   *)
(* or zero); a max_tokens supplied with a non-null value is passed as is.  *)
(***************************************************************************)
C8_MaxTokensOmittedOrExact ==
  \A i \in Active :
    (endpoint[i] = "chat" /\ call[i].k = "call")
      => /\ ~HasKey(request[i], "max_tokens")
              => "max_tokens" \notin DOMAIN call[i].args
         /\ (HasKey(request[i], "max_tokens")
               /\ request[i].f["max_tokens"] # JNull)
              => /\ "max_tokens" \in DOMAIN call[i].args
                 /\ call[i].args["max_tokens"] = request[i].f["max_tokens"]

\* a completion call was made for a request without max_tokens
C8_Witness ==
  \E i \in Active :
    /\ endpoint[i] = "chat" /\ call[i].k = "call"
    /\ ~HasKey(request[i], "max_tokens")
    /\ DOMAIN call[i].args = {"model", "messages", "temperature", "top_p"}

\* the request gets past the validation of its endpoint
PassesValidation(i) ==
  \/ endpoint[i] = "embeddings" /\ request[i].t = "obj"
       /\ ~InputMissingOrEmpty(request[i])
  \/ endpoint[i] = "chat" /\ WellFormedMessages(request[i])
       /\ SomeValidRole(request[i])

\* the request asks for streaming
Streaming(i) ==
  /\ endpoint[i] = "chat"
  /\ HasKey(request[i], "stream")
  /\ request[i].f["stream"] \notin EmptyValues

(***************************************************************************)
(* C9.  A request causes at most one provider call: exactly one when it    *)
(* passes validation and is not a streaming request, none when it is       *)
(* answered with 400 or 501; a 400 is never preceded by a provider call of *)
(* the same request, and a failed provider call is never repeated.         *)
(***************************************************************************)
C9_AtMostOneCall ==
  \A i \in Active :
    /\ ncalls[i] <= 1
    /\ (PassesValidation(i) /\ ~Streaming(i)) => ncalls[i] = 1
    /\ (pc[i] = "done" /\ response[i].status \in {400, 501})
         => (ncalls[i] = 0 /\ call[i] = NoCall /\ result[i] = NoResult)
    /\ ProviderRaised(i) => (pc[i] = "done" /\ ncalls[i] = 1)

\* the single provider call of a valid, non-streaming chat request failed
C9_Witness ==
  \E i \in Done :
    /\ endpoint[i] = "chat"
    /\ PassesValidation(i) /\ ~Streaming(i)
    /\ ProviderRaised(i) /\ ncalls[i] = 1

\* the request body with its `model` key replaced (m gives the key or not)
WithModel(body, m) ==
  JObj([key \in DOMAIN body.f \ {"model"} |-> body.f[key]] @@ m)

ModelVariants ==
  Optional("model", RequestModels \cup {JStr(CHAT_MODEL), JStr("other")})

\* what the handler of an endpoint does with a body, up to the provider call
FirstOutcome(ep, body, tok) ==
  except_Exception(IF ep = "embeddings" THEN embeddings_request(body, tok)
                   ELSE chat_request(body))

(***************************************************************************)
(* C10.  The `model` field of a request never influences the handling: a   *)
(* request that differs only in `model` has the same provider call and the *)
(* same response; the downstream model is always the fixed identifier of   *)
(* the endpoint, and so is the `model` of an /embeddings response.         *)
(***************************************************************************)
C10_ModelIgnored ==
  \A i \in Active :
    /\ call[i].k = "call"
         => call[i].args.model =
              (IF endpoint[i] = "embeddings" THEN "gemini/text-embedding-004"
               ELSE "gemini/gemini-2.0-flash-lite")
    /\ (pc[i] = "done" /\ endpoint[i] = "embeddings" /\ response[i].status = 200)
         => response[i].body.f["model"] = JStr("gemini/text-embedding-004")
    /\ request[i].t = "obj"
         => \A m \in ModelVariants, tok \in BOOLEAN :
              decoding_of(request[i], tok) = decoding[i]
                => FirstOutcome(endpoint[i], WithModel(request[i], m), tok)
                     = (IF ncalls[i] = 1 THEN call[i] ELSE response[i])

\* an /embeddings request that names another model was answered with 200
C10_Witness ==
  \E i \in Done :
    /\ endpoint[i] = "embeddings"
    /\ HasKey(request[i], "model")
    /\ request[i].f["model"] = JStr("gpt-4")
    /\ response[i].status = 200


\* the elements of a sequence that are messages of a valid role, in order
RECURSIVE ValidSubsequence(_)
ValidSubsequence(xs) ==
  IF xs = <<>> THEN <<>>
  ELSE IF ValidRoleElement(Head(xs))
       THEN <<Head(xs)>> \o ValidSubsequence(Tail(xs))
       ELSE ValidSubsequence(Tail(xs))

\* the request's value of a key, or 1.0 when the key is absent
ValueOrOne(body, key) ==
  IF HasKey(body, key) THEN body.f[key] ELSE JFloat("1.0")

(***************************************************************************)
(* C11.  On the non-streaming path the `messages` passed to the provider   *)
(* are exactly the sub-sequence of the request's messages whose role is    *)
(* one of system, user, assistant, tool, in their order and unmodified     *)
(* (other messages are dropped, not rejected); `temperature` and `top_p`   *)
(* passed are the request's values, or 1.0 each when absent.               *)
(***************************************************************************)
C11_ForwardedParameters ==
  \A i \in Active :
    (endpoint[i] = "chat" /\ call[i].k = "call")
      => /\ call[i].fn = "completion"
         /\ call[i].args.messages =
              JList(ValidSubsequence(request[i].f["messages"].xs))
         /\ call[i].args.temperature = ValueOrOne(request[i], "temperature")
         /\ call[i].args.top_p = ValueOrOne(request[i], "top_p")

\* a "bogus" message followed by a user message: only the second was passed
\* on, with the default temperature and the request's top_p
C11_Witness ==
  \E i \in Active :
    /\ endpoint[i] = "chat" /\ call[i].k = "call"
    /\ request[i].f["messages"] =
         JList(<<JObj([role |-> JStr("bogus"), content |-> JStr("x")]),
                 JObj([role |-> JStr("user"), content |-> JStr("x")])>>)
    /\ call[i].args.messages =
         JList(<<JObj([role |-> JStr("user"), content |-> JStr("x")])>>)
    /\ ~HasKey(request[i], "temperature")
    /\ call[i].args.temperature = JFloat("1.0")
    /\ call[i].args.top_p = JFloat("0.9")


\* the `input` of an /embeddings request that got past the emptiness test
CheckedInput(i) == request[i].f["input"]

\* a non-empty list whose first element is a non-empty list of integers
\* (a boolean counted as an integer, as Python does)
FirstIsIntegerList(v) ==
  /\ v.t = "list" /\ v.xs # <<>>
  /\ v.xs[1].t = "list" /\ v.xs[1].xs # <<>>
  /\ \A n \in 1..Len(v.xs[1].xs) : v.xs[1].xs[n].t \in {"int", "bool"}

\* a non-empty list whose first element is a non-empty list that starts with
\* an integer or a boolean
FirstStartsWithInteger(v) ==
  /\ v.t = "list" /\ v.xs # <<>>
  /\ v.xs[1].t = "list" /\ v.xs[1].xs # <<>>
  /\ v.xs[1].xs[1].t \in {"int", "bool"}

\* the handler made a decoding attempt for the request
DecodingAttempted(i) == decoding[i] # "none"

(***************************************************************************)
(* C12 as stated.  The input is treated as token-id sequences if and only  *)
(* if it is a non-empty sequence whose first element is a non-empty        *)
(* sequence of integers; every other non-empty input is forwarded to the   *)
(* provider unchanged without any decoding attempt.                        *)
(***************************************************************************)
C12_AsStated ==
  \A i \in Active :
    (endpoint[i] = "embeddings" /\ request[i].t = "obj"
       /\ ~InputMissingOrEmpty(request[i]))
      => /\ DecodingAttempted(i) <=> FirstIsIntegerList(CheckedInput(i))
         /\ ~FirstIsIntegerList(CheckedInput(i))
              => call[i].args.input = CheckedInput(i)

(***************************************************************************)
(* C12 amended.  The input is treated as token-id sequences if and only if *)
(* it is a non-empty list whose first element is a non-empty list that     *)
(* starts with an integer (only that one element is inspected, and a JSON  *)
(* boolean counts as an integer); every other non-empty input is forwarded *)
(* to the provider unchanged without any decoding attempt.                 *)
(***************************************************************************)
C12_TokenInputByFirstElement ==
  \A i \in Active :
    (endpoint[i] = "embeddings" /\ request[i].t = "obj"
       /\ ~InputMissingOrEmpty(request[i]))
      => /\ DecodingAttempted(i) <=> FirstStartsWithInteger(CheckedInput(i))
         /\ ~FirstStartsWithInteger(CheckedInput(i))
              => (call[i].k = "call" /\ call[i].args.input = CheckedInput(i))

\* the input [[0, "hi"]] got a decoding attempt and was forwarded as it came
C12_Witness ==
  \E i \in Active :
    /\ endpoint[i] = "embeddings"
    /\ HasKey(request[i], "input")
    /\ CheckedInput(i) = JList(<<JList(<<JInt(0), JStr("hi")>>)>>)
    /\ DecodingAttempted(i)
    /\ call[i].args.input = CheckedInput(i)


\* `messages` is absent or null
MessagesAbsent(body) ==
  body.t = "obj" /\ (~HasKey(body, "messages") \/ body.f["messages"] = JNull)

\* `messages` is a list none of whose elements has a valid role
ListWithoutValidRole(body) ==
  /\ HasKey(body, "messages")
  /\ body.f["messages"].t = "list"
  /\ ~SomeValidRole(body)

(***************************************************************************)
(* C14 as stated.  Message validation is decided before the streaming      *)
(* check: a 501 is produced only for requests with at least one valid-role *)
(* message, and a request with stream = true whose `messages` is absent,   *)
(* empty or has no valid role is answered with 400, never 501.  (Read in   *)
(* the claim's favour: a `messages` that is not a list is left out.)       *)
(***************************************************************************)
C14_AsStated ==
  \A i \in Done :
    endpoint[i] = "chat" =>
      /\ response[i].status = 501 => SomeValidRole(request[i])
      /\ (StreamRequested(request[i])
            /\ (MessagesAbsent(request[i]) \/ ListWithoutValidRole(request[i])))
           => response[i].status = 400

(***************************************************************************)
(* C14 amended.  Message validation is decided before the streaming check: *)
(* a 501 is produced only for requests with at least one valid-role        *)
(* message; a request with stream = true whose `messages` is absent, null, *)
(* empty or a list of JSON objects without a valid role is answered with   *)
(* 400, and one whose `messages` has no valid role is never answered with  *)
(* 501.                                                                    *)
(***************************************************************************)
C14_ValidationBeforeStreaming ==
  \A i \in Done :
    endpoint[i] = "chat" =>
      /\ response[i].status = 501 => SomeValidRole(request[i])
      /\ (StreamRequested(request[i]) /\ ~SomeValidRole(request[i]))
           => response[i].status # 501
      /\ (StreamRequested(request[i])
            /\ (MessagesAbsent(request[i])
                  \/ (ListWithoutValidRole(request[i])
                        /\ WellFormedMessages(request[i]))))
           => response[i].status = 400

\* a streaming request whose only message has the role "bogus" got 400
C14_Witness ==
  \E i \in Done :
    /\ endpoint[i] = "chat"
    /\ StreamRequested(request[i])
    /\ HasKey(request[i], "messages")
    /\ request[i].f["messages"] =
         JList(<<JObj([role |-> JStr("bogus"), content |-> JStr("x")])>>)
    /\ response[i].status = 400
    /\ ncalls[i] = 0


\* everything the server holds about the request of a thread
SlotState(i) ==
  <<pc[i], endpoint[i], request[i], decoding[i], call[i], ncalls[i],
    result[i], response[i], nresponses[i]>>

\* the response a finished request must have got, from its own body and the
\* answer to its own provider call alone
OwnResponse(i) ==
  IF result[i] = NoResult
  THEN FirstOutcome(endpoint[i], request[i], TRUE)
  ELSE except_Exception(
         IF endpoint[i] = "embeddings"
         THEN embeddings_response("gemini/text-embedding-004", result[i])
         ELSE chat_response(result[i]))

\* no step writes the configuration, and a step touches one thread's
\* request only
IsolatedStep ==
  /\ config' = config
  /\ \A i, j \in DOMAIN pc :
       (i # j /\ SlotState(i)' # SlotState(i)) => SlotState(j)' = SlotState(j)

\* the configuration is the start-up one, and finished requests got the
\* response their own body and provider answer determine: two requests with
\* the same body and the same provider answer have the same response
IsolatedResponses ==
  /\ config = StartupConfig
  /\ \A i \in Done : response[i] = OwnResponse(i)
  /\ \A i, j \in Done :
       (endpoint[i] = endpoint[j] /\ request[i] = request[j]
          /\ result[i] = result[j])
         => response[i] = response[j]

(***************************************************************************)
(* C13.  Under any interleaving of concurrently handled requests no        *)
(* handler step writes process-wide state (API key, log flag and model     *)
(* identifiers stay as set at start-up), and the response to each request  *)
(* is a function of that request's own body and of the result of its own   *)
(* provider call only, never of another in-flight or earlier request.      *)
(***************************************************************************)
C13_RequestsAreIsolated == []IsolatedResponses /\ [][IsolatedStep]_vars

\* two threads have finished requests of the same endpoint with different
\* provider answers and different responses
C13_Witness ==
  \E i, j \in Done :
    /\ i # j
    /\ endpoint[i] = "embeddings" /\ endpoint[j] = "embeddings"
    /\ result[i] # NoResult /\ result[j] # NoResult
    /\ result[i] # result[j]
    /\ response[i].status = 200 /\ response[j].status = 500

=============================================================================
